---- MODULE Spec2Model ----
(***************************************************************************)
(* A model of install.py, the FloorPier theme installer: the build of the  *)
(* theme (rmtree, copytree, Jinja2 rendering), the profile lookup, the     *)
(* confirmed installation into the profile and the confirmed patch of the  *)
(* Sidebery extension archive.                                             *)
(*                                                                         *)
(* File names are strings, a path is a sequence of names relative to the   *)
(* root of its tree, and a tree is a record of its directories and of its  *)
(* files' contents.  The content of a plain file is a sequence of tokens.  *)
(***************************************************************************)
EXTENDS Integers, Sequences, FiniteSets, TLC

VARIABLES
    pc,         \* position of the run in the __main__ block and its callees
    run,        \* the number of the current run of the script
    platform,   \* sys.platform
    src,        \* the tree at THEME_SOURCE_DIR
    build,      \* the tree at BUILD_DIR, its extensions/ entries excepted
    walked,     \* the templates os.walk has met so far in _prepare_files
    buildXpi,   \* build/extensions/{id}.xpi: << >> or <<archive>>
    unpacked,   \* build/extensions/<id>/: << >> or <<unpacked archive>>
    repacked,   \* build/extensions/{id}.xpi.zip: << >> or <<archive>>
    hasProfile, \* whether a *.default-release directory exists below base_dir
    profile,    \* the tree at the profile directory, the extension archive excepted
    xpi,        \* <profile>/extensions/{id}.xpi: << >> or <<archive>>
    backup,     \* the tree at BACKUP_DIR, the extension archive excepted
    backupXpi,  \* BACKUP_DIR/extensions/{id}.xpi: << >> or <<archive>>
    inputs,     \* the lines input() has returned in this run
    out,        \* the prompts and messages written to the console in this run
    aborted,    \* the exception that ended the run, "" while none has
    atInstall,  \* history: profile, archive and backup when the installer prompted
    atPatch,    \* history: profile, archive and backup when the patcher prompted
    steps       \* history: the calls of the __main__ block begun and ended in this run

buildVars   == <<build, walked, buildXpi, unpacked, repacked>>
profileVars == <<profile, xpi>>
backupVars  == <<backup, backupXpi>>
worldVars   == <<platform, src, hasProfile>>
ioVars      == <<inputs, out>>
histVars    == <<atInstall, atPatch>>
vars == <<pc, run, aborted, worldVars, buildVars, profileVars, backupVars, ioVars, histVars, steps>>

----------------------------------------------------------------------------
(* Bounds *)

MaxSrcFiles == 2
MaxHeadLen == 2
MaxRuns == 2

----------------------------------------------------------------------------
(* Strings *)

UpperCase == "ABCDEFGHIJKLMNOPQRSTUVWXYZ"
LowerCase == "abcdefghijklmnopqrstuvwxyz"

CharAt(s, i) == SubSeq(s, i, i)

\* str.lower() on one character.
LowerChar(c) ==
    IF \E i \in 1..Len(UpperCase) : CharAt(UpperCase, i) = c
    THEN CharAt(LowerCase, CHOOSE i \in 1..Len(UpperCase) : CharAt(UpperCase, i) = c)
    ELSE c

RECURSIVE Lower(_)
\* str.lower()
Lower(s) ==
    IF Len(s) = 0 THEN ""
    ELSE LowerChar(CharAt(s, 1)) \o Lower(SubSeq(s, 2, Len(s)))

\* str.endswith(suffix)
EndsWith(s, suffix) ==
    /\ Len(s) >= Len(suffix)
    /\ SubSeq(s, Len(s) - Len(suffix) + 1, Len(s)) = suffix

\* The index of the last '.' of s, 0 when it has none (str.rfind, 1-based).
LastDot(s) ==
    IF \E i \in 1..Len(s) : CharAt(s, i) = "."
    THEN CHOOSE i \in 1..Len(s) :
            /\ CharAt(s, i) = "."
            /\ \A j \in (i + 1)..Len(s) : CharAt(s, j) # "."
    ELSE 0

\* os.path.splitext(file)[0] of a bare file name: the name up to its last dot,
\* unless only dots precede that dot (a leading dot starts no extension).
SplitextRoot(file) ==
    LET dot == LastDot(file)
    IN  IF dot > 0 /\ \E i \in 1..(dot - 1) : CharAt(file, i) # "."
        THEN SubSeq(file, 1, dot - 1)
        ELSE file

\* os.path.normcase, which fnmatch applies to names and pattern: lower case on
\* Windows, the name itself elsewhere.
NormCase(name) == IF platform = "win32" THEN Lower(name) ELSE name

\* fnmatch of a name against the pattern '*.jinja' of ignore_patterns.
IgnoredName(name) == EndsWith(NormCase(name), NormCase(".jinja"))

\* file.endswith('.jinja')
IsTemplate(file) == EndsWith(file, ".jinja")

----------------------------------------------------------------------------
(* Trees *)

NoTree == [dirs |-> {}, files |-> << >>]

Exists(tree) == << >> \in tree.dirs

Prefixes(path) == { SubSeq(path, 1, i) : i \in 0..Len(path) }

ParentOf(path) == SubSeq(path, 1, Len(path) - 1)

BaseName(path) == path[Len(path)]

Merge(f, g) ==
    [p \in (DOMAIN f) \cup (DOMAIN g) |-> IF p \in DOMAIN g THEN g[p] ELSE f[p]]

\* The tree holding the given files and the directories that lead to them.
TreeOf(files) ==
    [dirs  |-> {<< >>} \cup UNION { Prefixes(ParentOf(p)) : p \in DOMAIN files },
     files |-> files]

\* os.makedirs(path, exist_ok=True)
MakeDirs(tree, path) == [tree EXCEPT !.dirs = @ \cup Prefixes(path)]

\* The tree below directory `at`, with paths relative to it.
SubTree(tree, at) ==
    LET under(S) == { p \in S : Len(p) >= Len(at) /\ SubSeq(p, 1, Len(at)) = at }
        rel(p)   == SubSeq(p, Len(at) + 1, Len(p))
        fs       == under(DOMAIN tree.files)
    IN  [dirs  |-> { rel(p) : p \in under(tree.dirs) },
         files |-> [q \in { rel(p) : p \in fs } |-> tree.files[at \o q]]]

\* The names of the entries of a tree.
NamesIn(tree) ==
    { p[Len(p)] : p \in { q \in tree.dirs \cup DOMAIN tree.files : Len(q) > 0 } }

\* shutil.copytree(from, to/at, ignore=..., dirs_exist_ok=True): every entry of
\* `from` none of whose path components is among the ignored names is copied
\* below `at`, a file of the same path being overwritten.
CopyTree(from, to, at, ignored) ==
    LET kept(p) == \A i \in 1..Len(p) : p[i] \notin ignored
        ds      == { p \in from.dirs : kept(p) }
        fs      == { p \in DOMAIN from.files : kept(p) }
    IN  [dirs  |-> to.dirs \cup Prefixes(at) \cup { at \o p : p \in ds },
         files |-> Merge(to.files,
                         [q \in { at \o p : p \in fs } |->
                             from.files[SubSeq(q, Len(at) + 1, Len(q))]])]

\* What ignore_patterns('*.jinja') tells copytree to skip in the source tree.
IgnoredNames == { name \in NamesIn(src) : IgnoredName(name) }

\* copytree without an ignore argument
NothingIgnored == {}

----------------------------------------------------------------------------
(* Jinja2 *)

\* A template whose text Jinja2 cannot parse.
RenderFails(text) == \E i \in 1..Len(text) : text[i] = "{%"

RECURSIVE Expand(_)
\* The text of a template with no variables bound: literal text as it is, a
\* comment dropped, an expression replaced by its value.
Expand(text) ==
    IF text = << >> THEN << >>
    ELSE LET t == Head(text)
         IN  (CASE t = "{#c#}"   -> << >>
                [] t = "{{ 1 }}" -> <<"1">>
                [] OTHER         -> <<t>>) \o Expand(Tail(text))

\* template.render(): Jinja2 drops one trailing newline of the template
\* (keep_trailing_newline is off by default).
Render(text) ==
    LET body == IF Len(text) > 0 /\ text[Len(text)] = "\n"
                THEN SubSeq(text, 1, Len(text) - 1)
                ELSE text
    IN  Expand(body)

----------------------------------------------------------------------------
(* _prepare_files *)

\* The path in the build tree that the rendered text of template p is written to.
OutputFile(p) == ParentOf(p) \o <<SplitextRoot(BaseName(p))>>

\* The templates os.walk meets: every file of the source tree named *.jinja.
Templates == { p \in DOMAIN src.files : IsTemplate(BaseName(p)) }

\* rmtree(BUILD_DIR, ignore_errors=True)
rmtree ==
    /\ pc = "rmtree"
    /\ build' = NoTree
    /\ buildXpi' = << >>
    /\ unpacked' = << >>
    /\ repacked' = << >>
    /\ pc' = "copy"
    /\ UNCHANGED <<run, aborted, walked, worldVars, profileVars, backupVars, ioVars, histVars>>
    /\ steps' = Append(steps, "rmtree")

\* os.makedirs(BUILD_DIR); copytree(THEME_SOURCE_DIR, BUILD_DIR, ignore=*.jinja)
prepare_files_copytree ==
    /\ pc = "copy"
    /\ IF Exists(src)
       THEN /\ build' = CopyTree(src, MakeDirs(build, << >>), << >>, IgnoredNames)
            /\ pc' = "render"
            /\ UNCHANGED aborted
       ELSE /\ build' = MakeDirs(build, << >>)
            /\ pc' = "aborted"
            /\ aborted' = "FileNotFoundError"
    /\ UNCHANGED <<run, walked, buildXpi, unpacked, repacked>>
    /\ UNCHANGED <<worldVars, profileVars, backupVars, ioVars, histVars>>
    /\ steps' = Append(steps, "begin renderer")

\* One turn of the loop over os.walk for a file named *.jinja: the output
\* directory is made, the template loaded and rendered, the output written.
\* Jinja2 splits a template name at '/' and refuses a piece that holds
\* os.path.sep, which is what os.path.join puts into the name on Windows.
prepare_files_render(p) ==
    /\ pc = "render"
    /\ p \in Templates \ walked
    /\ walked' = walked \cup {p}
    /\ LET made == MakeDirs(build, ParentOf(p))
       IN  IF platform = "win32"
           THEN /\ build' = made
                /\ pc' = "aborted"
                /\ aborted' = "TemplateNotFound"
           ELSE IF RenderFails(src.files[p])
           THEN /\ build' = made
                /\ pc' = "aborted"
                /\ aborted' = "TemplateSyntaxError"
           ELSE IF OutputFile(p) \in made.dirs
           THEN /\ build' = made
                /\ pc' = "aborted"
                /\ aborted' = "IsADirectoryError"
           ELSE /\ build' = [made EXCEPT !.files =
                                Merge(@, [q \in {OutputFile(p)} |-> Render(src.files[p])])]
                /\ UNCHANGED <<pc, aborted>>
    /\ UNCHANGED <<run, buildXpi, unpacked, repacked>>
    /\ UNCHANGED <<worldVars, profileVars, backupVars, ioVars, histVars>>
    /\ UNCHANGED steps

\* Mutant of prepare_files_return: the installer is called without the profile having
\* been looked up.
prepare_files_return_no_locator ==
    /\ pc = "render"
    /\ Templates \subseteq walked
    /\ pc' = "install_prompt"
    /\ steps' = Append(steps, "end renderer")
    /\ UNCHANGED <<run, aborted, worldVars, buildVars, profileVars, backupVars, ioVars, histVars>>

\* os.walk is exhausted: _prepare_files returns.
prepare_files_return ==
    /\ pc = "render"
    /\ Templates \subseteq walked
    /\ pc' = "locate"
    /\ UNCHANGED <<run, aborted, worldVars, buildVars, profileVars, backupVars, ioVars, histVars>>
    /\ steps' = Append(steps, "end renderer")

----------------------------------------------------------------------------
(* Sidebery's markup *)

SIDEBERY_CUSTOM_THEME_REL_DIR == "themes/floorpier"
SIDEBERY_CUSTOM_THEME_TAG_ID == "floorpier_theme_link"

\* A node of a parsed document: an element, or a string (tag "#text").
TextNode(t) ==
    [tag |-> "#text", rel |-> "", type |-> "", href |-> "", id |-> "", text |-> t]

\* soup.new_tag('link', rel=..., type=..., href=..., id=...)
NewLinkTag(component) ==
    [tag  |-> "link", rel |-> "stylesheet", type |-> "text/css",
     href |-> "../" \o SIDEBERY_CUSTOM_THEME_REL_DIR \o "/" \o component \o ".css",
     id   |-> SIDEBERY_CUSTOM_THEME_TAG_ID, text |-> ""]

IsElement(n) == n.tag # "#text"

WhiteSpace == {" ", "\n", "\t"}

RECURSIVE Strip(_)
\* str.strip()
Strip(t) ==
    IF Len(t) = 0 THEN t
    ELSE IF CharAt(t, 1) \in WhiteSpace THEN Strip(SubSeq(t, 2, Len(t)))
    ELSE IF CharAt(t, Len(t)) \in WhiteSpace THEN Strip(SubSeq(t, 1, Len(t) - 1))
    ELSE t

RECURSIVE PrettyNodes(_)
\* prettify() on the children of one element: a string is stripped and dropped
\* when nothing is left of it, and every node that stays ends its line.
PrettyNodes(nodes) ==
    IF nodes = << >> THEN << >>
    ELSE LET n    == Head(nodes)
             rest == PrettyNodes(Tail(nodes))
         IN  IF IsElement(n) THEN <<n, TextNode("\n")>> \o rest
             ELSE IF Strip(n.text) = "" THEN rest
             ELSE <<TextNode(Strip(n.text)), TextNode("\n")>> \o rest

\* soup.prettify()
Prettify(doc) ==
    [doc EXCEPT !.head = PrettyNodes(@), !.body = PrettyNodes(@)]

HasId(nodes, id) == \E i \in 1..Len(nodes) : IsElement(nodes[i]) /\ nodes[i].id = id

FirstWithId(nodes, id) ==
    CHOOSE i \in 1..Len(nodes) :
        /\ IsElement(nodes[i]) /\ nodes[i].id = id
        /\ \A j \in 1..(i - 1) : ~(IsElement(nodes[j]) /\ nodes[j].id = id)

\* soup.find(id=...) finds something: the head comes before the body.
Found(doc, id) == HasId(doc.head, id) \/ HasId(doc.body, id)

\* existing_tag.replace_with(tag) on the first element with the id.
ReplaceWith(doc, id, tag) ==
    IF HasId(doc.head, id)
    THEN [doc EXCEPT !.head[FirstWithId(doc.head, id)] = tag]
    ELSE [doc EXCEPT !.body[FirstWithId(doc.body, id)] = tag]

\* Mutant of HeadAppend: the tag becomes the first child of the head.
HeadInsertFirst(doc, tag) == [doc EXCEPT !.head = <<tag>> \o @]

\* soup.head.append(tag)
HeadAppend(doc, tag) == [doc EXCEPT !.head = Append(@, tag)]

\* Mutant of UpsertLink: the link is appended whether or not one is there.
UpsertLinkAppend(doc, component) == [doc EXCEPT !.head = Append(@, NewLinkTag(component))]

\* The body of the loop of _update_sidebery_themes on a parsed document.
UpsertLink(doc, component) ==
    IF Found(doc, SIDEBERY_CUSTOM_THEME_TAG_ID)
    THEN ReplaceWith(doc, SIDEBERY_CUSTOM_THEME_TAG_ID, NewLinkTag(component))
    ELSE HeadAppend(doc, NewLinkTag(component))

\* What the loop writes back to <component>.html.
PatchedHtml(doc, component) == Prettify(UpsertLink(doc, component))

\* soup.head is None: the append raises.
PatchFails(doc) == ~Found(doc, SIDEBERY_CUSTOM_THEME_TAG_ID) /\ ~doc.hasHead

----------------------------------------------------------------------------
(* _get_profile_dir *)

Abort(exception) == pc' = "aborted" /\ aborted' = exception

get_profile_dir ==
    /\ pc = "locate"
    /\ IF platform \in {"darwin", "linux", "win32"}
       THEN IF hasProfile
            THEN pc' = "install_prompt" /\ UNCHANGED aborted
            ELSE Abort("StopIteration")
       ELSE Abort("NotImplementedError")
    /\ UNCHANGED <<run, worldVars, buildVars, profileVars, backupVars, ioVars, histVars>>
    /\ steps' = steps \o (IF platform \in {"darwin", "linux", "win32"} /\ hasProfile
                           THEN <<"begin locator", "end locator">>
                           ELSE <<"begin locator">>)

----------------------------------------------------------------------------
(* _install_user_chrome *)

Snapshot == [profile |-> profile, xpi |-> xpi, backup |-> backup, backupXpi |-> backupXpi]

\* Mutant of Confirms: any answer that begins with a 'y' confirms.
ConfirmsPrefix(user_input) ==
    Len(user_input) > 0 /\ Lower(CharAt(user_input, 1)) = "y"

\* user_input.lower() == 'y'
Confirms(user_input) == Lower(user_input) = "y"

Inputs == {"y", "Y", "n", "", "yes"}

\* Mutant of install_user_chrome: a declined installer ends the run.
install_user_chrome_or_exit ==
    /\ pc = "install_prompt"
    /\ \E user_input \in Inputs :
          /\ inputs' = Append(inputs, user_input)
          /\ pc' = IF Confirms(user_input) THEN "backup_js" ELSE "done"
    /\ out' = Append(out, "prompt:install")
    /\ atInstall' = Snapshot
    /\ steps' = Append(steps, "begin installer")
    /\ UNCHANGED <<run, aborted, worldVars, buildVars, profileVars, backupVars, atPatch>>

install_user_chrome ==
    /\ pc = "install_prompt"
    /\ \E user_input \in Inputs :
          /\ inputs' = Append(inputs, user_input)
          /\ pc' = IF Confirms(user_input) THEN "backup_js" ELSE "patch_prompt"
    /\ out' = Append(out, "prompt:install")
    /\ atInstall' = Snapshot
    /\ UNCHANGED <<run, aborted, worldVars, buildVars, profileVars, backupVars, atPatch>>
    /\ steps' = steps \o (IF pc' = "patch_prompt"
                           THEN <<"begin installer", "end installer">>
                           ELSE <<"begin installer">>)

\* _backup_user_js
backup_user_js ==
    /\ pc = "backup_js"
    /\ IF <<"user.js">> \in DOMAIN profile.files
       THEN /\ backup' = [MakeDirs(backup, << >>) EXCEPT !.files =
                            Merge(@, [q \in {<<"user.js">>} |-> profile.files[q]])]
            /\ out' = Append(out, "backed up user.js")
            /\ pc' = "backup_chrome"
            /\ UNCHANGED aborted
       ELSE /\ backup' = MakeDirs(backup, << >>)
            /\ Abort("FileNotFoundError")
            /\ UNCHANGED out
    /\ UNCHANGED <<run, worldVars, buildVars, profileVars, backupXpi, inputs, histVars>>
    /\ UNCHANGED steps

\* Mutant of backup_user_chrome: a profile without a chrome directory is let
\* through with nothing backed up.
backup_user_chrome_if_present ==
    /\ pc = "backup_chrome"
    /\ IF <<"chrome">> \in backup.dirs
       THEN /\ Abort("FileExistsError")
            /\ UNCHANGED <<backup, out>>
       ELSE /\ backup' = IF <<"chrome">> \in profile.dirs
                         THEN CopyTree(SubTree(profile, <<"chrome">>), backup, <<"chrome">>,
                                       NothingIgnored)
                         ELSE MakeDirs(backup, << >>)
            /\ out' = Append(out, "backed up user chrome")
            /\ pc' = "install_copy"
            /\ UNCHANGED aborted
    /\ UNCHANGED <<run, worldVars, buildVars, profileVars, backupXpi, inputs, histVars, steps>>

\* _backup_user_chrome: copytree without dirs_exist_ok refuses a destination
\* that exists.
backup_user_chrome ==
    /\ pc = "backup_chrome"
    /\ IF <<"chrome">> \notin profile.dirs
       THEN /\ backup' = MakeDirs(backup, << >>)
            /\ Abort("FileNotFoundError")
            /\ UNCHANGED out
       ELSE IF <<"chrome">> \in backup.dirs
       THEN /\ Abort("FileExistsError")
            /\ UNCHANGED <<backup, out>>
       ELSE /\ backup' = CopyTree(SubTree(profile, <<"chrome">>), backup, <<"chrome">>,
                                  NothingIgnored)
            /\ out' = Append(out, "backed up user chrome")
            /\ pc' = "install_copy"
            /\ UNCHANGED aborted
    /\ UNCHANGED <<run, worldVars, buildVars, profileVars, backupXpi, inputs, histVars>>
    /\ UNCHANGED steps

\* copytree(PROFILE_BUILD_DIR, profile_dir, dirs_exist_ok=True) and the message
install_user_chrome_copytree ==
    /\ pc = "install_copy"
    /\ IF <<"profile">> \in build.dirs
       THEN /\ profile' = CopyTree(SubTree(build, <<"profile">>), profile, << >>,
                                   NothingIgnored)
            /\ out' = Append(out, "installed profile")
            /\ pc' = "patch_prompt"
            /\ UNCHANGED aborted
       ELSE /\ Abort("FileNotFoundError")
            /\ UNCHANGED <<profile, out>>
    /\ UNCHANGED <<run, worldVars, buildVars, xpi, backupVars, inputs, histVars>>
    /\ steps' = IF pc' = "patch_prompt" THEN Append(steps, "end installer") ELSE steps

----------------------------------------------------------------------------
(* _update_sidebery *)

\* os.makedirs(EXTENSIONS_BUILD_DIR) and the prompt
update_sidebery ==
    /\ pc = "patch_prompt"
    /\ build' = MakeDirs(build, <<"extensions">>)
    /\ \E user_input \in Inputs :
          /\ inputs' = Append(inputs, user_input)
          /\ pc' = IF Confirms(user_input) THEN "unpack_copy" ELSE "done"
    /\ out' = Append(out, "prompt:patch")
    /\ atPatch' = Snapshot
    /\ UNCHANGED <<run, aborted, worldVars, walked, buildXpi, unpacked, repacked>>
    /\ UNCHANGED <<profileVars, backupVars, atInstall>>
    /\ steps' = steps \o (IF pc' = "done"
                           THEN <<"begin patcher", "end patcher">>
                           ELSE <<"begin patcher">>)

\* Mutant of unpack_sidebery_copy: the archive is moved into the build tree, not copied.
unpack_sidebery_move ==
    /\ pc = "unpack_copy"
    /\ IF xpi # << >>
       THEN buildXpi' = xpi /\ xpi' = << >> /\ pc' = "unpack_extract" /\ UNCHANGED aborted
       ELSE Abort("FileNotFoundError") /\ UNCHANGED <<buildXpi, xpi>>
    /\ UNCHANGED <<run, worldVars, build, walked, unpacked, repacked>>
    /\ UNCHANGED <<profile, backupVars, ioVars, histVars, steps>>

\* _unpack_sidebery: copy(sidebery_src_path, sidebery_archive_dest_path)
unpack_sidebery_copy ==
    /\ pc = "unpack_copy"
    /\ IF xpi # << >>
       THEN buildXpi' = xpi /\ pc' = "unpack_extract" /\ UNCHANGED aborted
       ELSE Abort("FileNotFoundError") /\ UNCHANGED buildXpi
    /\ UNCHANGED <<run, worldVars, build, walked, unpacked, repacked>>
    /\ UNCHANGED <<profileVars, backupVars, ioVars, histVars>>
    /\ UNCHANGED steps

\* _unpack_sidebery: unpack_archive(..., format='zip')
unpack_sidebery_unpack_archive ==
    /\ pc = "unpack_extract"
    /\ IF buildXpi[1].valid
       THEN /\ unpacked' = <<[html |-> buildXpi[1].html, theme |-> buildXpi[1].theme]>>
            /\ pc' = "themes_copy"
            /\ UNCHANGED aborted
       ELSE Abort("ReadError") /\ UNCHANGED unpacked
    /\ UNCHANGED <<run, worldVars, build, walked, buildXpi, repacked>>
    /\ UNCHANGED <<profileVars, backupVars, ioVars, histVars>>
    /\ UNCHANGED steps

\* _update_sidebery_themes: the theme directory is made in the unpacked tree
\* and SIDEBERY_THEME_BUILD_DIR copied into it.
update_sidebery_themes_copytree ==
    /\ pc = "themes_copy"
    /\ LET made == MakeDirs(unpacked[1].theme, << >>)
       IN  IF <<"sidebery">> \in build.dirs
           THEN /\ unpacked' = <<[unpacked[1] EXCEPT !.theme =
                                    CopyTree(SubTree(build, <<"sidebery">>), made, << >>,
                                             NothingIgnored)]>>
                /\ pc' = "themes_html"
                /\ UNCHANGED aborted
           ELSE /\ unpacked' = <<[unpacked[1] EXCEPT !.theme = made]>>
                /\ Abort("FileNotFoundError")
    /\ UNCHANGED <<run, worldVars, build, walked, buildXpi, repacked>>
    /\ UNCHANGED <<profileVars, backupVars, ioVars, histVars>>
    /\ UNCHANGED steps

\* _update_sidebery_themes: the loop over the components, which are 'sidebar'.
update_sidebery_themes_html ==
    /\ pc = "themes_html"
    /\ IF unpacked[1].html = << >>
       THEN Abort("FileNotFoundError") /\ UNCHANGED unpacked
       ELSE IF PatchFails(unpacked[1].html[1])
       THEN Abort("AttributeError") /\ UNCHANGED unpacked
       ELSE /\ unpacked' = <<[unpacked[1] EXCEPT !.html =
                                <<PatchedHtml(unpacked[1].html[1], "sidebar")>>]>>
            /\ pc' = "repack"
            /\ UNCHANGED aborted
    /\ UNCHANGED <<run, worldVars, build, walked, buildXpi, repacked>>
    /\ UNCHANGED <<profileVars, backupVars, ioVars, histVars>>
    /\ UNCHANGED steps

\* _repack_sidebery: make_archive writes a new zip file, build/extensions/{id}.xpi.zip.
repack_sidebery ==
    /\ pc = "repack"
    /\ repacked' = <<[valid |-> TRUE, stamp |-> run,
                      html |-> unpacked[1].html, theme |-> unpacked[1].theme]>>
    /\ pc' = "backup_xpi"
    /\ UNCHANGED <<run, aborted, worldVars, build, walked, buildXpi, unpacked>>
    /\ UNCHANGED <<profileVars, backupVars, ioVars, histVars>>
    /\ UNCHANGED steps

\* Mutant of backup_sidebery: the archive is removed to make room for the new
\* one without being put into the backup.
backup_sidebery_remove ==
    /\ pc = "backup_xpi"
    /\ backup' = MakeDirs(backup, <<"extensions">>)
    /\ xpi' = << >>
    /\ out' = Append(out, "backed up sidebery")
    /\ pc' = "copy_back"
    /\ UNCHANGED <<run, aborted, worldVars, buildVars, profile, backupXpi, inputs, histVars, steps>>

\* _backup_sidebery: shutil.move refuses a destination that exists; it renames
\* the file, or, across file systems, copies it and then removes the source.
backup_sidebery ==
    /\ pc = "backup_xpi"
    /\ backup' = MakeDirs(backup, <<"extensions">>)
    /\ IF backupXpi # << >>
       THEN /\ Abort("shutil.Error")
            /\ UNCHANGED <<xpi, backupXpi, out>>
       ELSE \/ /\ backupXpi' = xpi
               /\ xpi' = << >>
               /\ out' = Append(out, "backed up sidebery")
               /\ pc' = "copy_back"
               /\ UNCHANGED aborted
            \/ /\ backupXpi' = xpi
               /\ pc' = "backup_unlink"
               /\ UNCHANGED <<xpi, out, aborted>>
    /\ UNCHANGED <<run, worldVars, buildVars, profile, inputs, histVars>>
    /\ UNCHANGED steps

\* The end of a move across file systems: os.unlink(src), then the message.
backup_sidebery_unlink ==
    /\ pc = "backup_unlink"
    /\ xpi' = << >>
    /\ out' = Append(out, "backed up sidebery")
    /\ pc' = "copy_back"
    /\ UNCHANGED <<run, aborted, worldVars, buildVars, profile, backupVars, inputs, histVars>>
    /\ UNCHANGED steps

\* copy(sidebery_repack_path, sidebery_src_path): the destination is opened
\* for writing and holds part of the archive until the copy ends.
update_sidebery_copy_begin ==
    /\ pc = "copy_back"
    /\ xpi' = <<[repacked[1] EXCEPT !.valid = FALSE]>>
    /\ pc' = "copy_back_end"
    /\ UNCHANGED <<run, aborted, worldVars, buildVars, profile, backupVars, ioVars, histVars>>
    /\ UNCHANGED steps

update_sidebery_copy_end ==
    /\ pc = "copy_back_end"
    /\ xpi' = repacked
    /\ out' = Append(out, "installed sidebery")
    /\ pc' = "done"
    /\ UNCHANGED <<run, aborted, worldVars, buildVars, profile, backupVars, inputs, histVars>>
    /\ steps' = Append(steps, "end patcher")

----------------------------------------------------------------------------
(* The build step alone, over every small theme source tree *)

Platforms == {"darwin", "linux", "win32", "freebsd"}

\* File texts: plain text, a template with a comment, an expression and a
\* trailing newline, and a template Jinja2 cannot parse.
Texts == { <<"x{}">>, <<"y{}", "{#c#}", "{{ 1 }}", "\n">>, <<"{%">> }

SrcPaths ==
    { <<"a.css">>, <<"b.css">>, <<"b.css.jinja">>, <<".jinja">>,
      <<"d.jinja", "a.css">>, <<"sub", "c.css.jinja">>, <<"c", "a.css">>, <<"c.jinja">> }

\* The source trees of at most MaxSrcFiles files, and the missing source directory.
SrcTrees ==
    {NoTree} \cup
    { TreeOf(f) : f \in UNION { [S -> Texts] :
                     S \in { T \in SUBSET SrcPaths : Cardinality(T) <= MaxSrcFiles } } }

\* What a previous run may have left at BUILD_DIR.
StaleBuilds == { NoTree, TreeOf([q \in {<<"old.css">>} |-> <<"x{}">>]) }

NoSnapshot == [profile |-> NoTree, xpi |-> << >>, backup |-> NoTree, backupXpi |-> << >>]

InitRender ==
    /\ pc = "rmtree"
    /\ run = 1
    /\ aborted = ""
    /\ platform \in Platforms
    /\ src \in SrcTrees
    /\ build \in StaleBuilds
    /\ walked = {}
    /\ buildXpi = << >> /\ unpacked = << >> /\ repacked = << >>
    /\ hasProfile = FALSE
    /\ profile = NoTree /\ xpi = << >>
    /\ backup = NoTree /\ backupXpi = << >>
    /\ inputs = << >> /\ out = << >>
    /\ atInstall = NoSnapshot /\ atPatch = NoSnapshot
    /\ steps = << >>

NextRender ==
    \/ rmtree
    \/ prepare_files_copytree
    \/ \E p \in DOMAIN src.files : prepare_files_render(p)
    \/ prepare_files_return

SpecRender == InitRender /\ [][NextRender]_vars

----------------------------------------------------------------------------
(* The whole script, run up to MaxRuns times on the same machine *)

\* Theme sources: with templates, without, without a sidebery directory,
\* without a profile directory.
MainTrees ==
    { TreeOf([q \in {<<"profile", "user.js">>, <<"profile", "chrome", "userChrome.css.jinja">>,
                     <<"sidebery", "sidebar.css.jinja">>} |->
                 IF IsTemplate(BaseName(q)) THEN <<"y{}", "{#c#}", "{{ 1 }}", "\n">>
                                            ELSE <<"x{}">>]),
      TreeOf([q \in {<<"profile", "user.js">>, <<"profile", "chrome", "userChrome.css">>,
                     <<"sidebery", "sidebar.css">>} |-> <<"x{}">>]),
      TreeOf([q \in {<<"profile", "user.js">>} |-> <<"x{}">>]),
      TreeOf([q \in {<<"sidebery", "sidebar.css">>} |-> <<"x{}">>]) }

\* A profile directory: prefs.js and an extensions directory, with or without
\* a user.js and a chrome directory of the operator's own.
ProfileTree(js, chrome) ==
    LET paths == {<<"prefs.js">>}
                 \cup (IF js THEN {<<"user.js">>} ELSE {})
                 \cup (IF chrome THEN {<<"chrome", "userChrome.css">>} ELSE {})
    IN  MakeDirs(TreeOf([q \in paths |-> <<"own">>]), <<"extensions">>)

Profiles == { ProfileTree(js, chrome) : js \in BOOLEAN, chrome \in BOOLEAN }

\* The link an earlier version of the theme left, Sidebery's own stylesheet,
\* white space between tags, and Sidebery's root element.
OldThemeLink == [NewLinkTag("sidebar") EXCEPT !.href = "../themes/old/sidebar.css"]
StyleLink ==
    [tag |-> "link", rel |-> "stylesheet", type |-> "text/css",
     href |-> "sidebar.css", id |-> "", text |-> ""]
RootDiv ==
    [tag |-> "div", rel |-> "", type |-> "", href |-> "", id |-> "root", text |-> ""]

HeadNodes == { OldThemeLink, StyleLink, TextNode(" ") }

HeadSeqs == UNION { [1..n -> HeadNodes] : n \in 0..MaxHeadLen }

Bodies == { << >>, <<RootDiv>>, <<OldThemeLink>> }

CountId(nodes, id) ==
    Cardinality({ i \in 1..Len(nodes) : IsElement(nodes[i]) /\ nodes[i].id = id })

\* In an HTML document an id names at most one element.
UniqueIds(doc) ==
    \A id \in { n.id : n \in { (doc.head \o doc.body)[i] : i \in 1..Len(doc.head \o doc.body) } } :
        id # "" => CountId(doc.head \o doc.body, id) <= 1

\* The sidebar/sidebar.html files an installed Sidebery may hold: with a head
\* of at most MaxHeadLen nodes, or without a head element.
Docs ==
    { d \in { [hasHead |-> TRUE, head |-> h, body |-> b] : h \in HeadSeqs, b \in Bodies }
            \cup { [hasHead |-> FALSE, head |-> << >>, body |-> b] : b \in Bodies } :
        UniqueIds(d) }

\* The archives that may be installed: a file that is no zip archive, an
\* archive without sidebar/sidebar.html, an archive with one.  stamp tells
\* the bytes of one zip file from another's: 0 as installed by the browser,
\* the number of the run for one make_archive wrote.
Archives ==
    { [valid |-> FALSE, stamp |-> 0, html |-> << >>, theme |-> NoTree],
      [valid |-> TRUE, stamp |-> 0, html |-> << >>, theme |-> NoTree] }
    \cup { [valid |-> TRUE, stamp |-> 0, html |-> <<d>>, theme |-> NoTree] : d \in Docs }

Init ==
    /\ pc = "rmtree"
    /\ run = 1
    /\ aborted = ""
    /\ platform \in Platforms
    /\ src \in MainTrees
    /\ build \in StaleBuilds
    /\ walked = {}
    /\ buildXpi = << >> /\ unpacked = << >> /\ repacked = << >>
    /\ hasProfile \in BOOLEAN
    /\ IF hasProfile
       THEN /\ profile \in Profiles
            /\ xpi \in {<< >>} \cup { <<a>> : a \in Archives }
       ELSE profile = NoTree /\ xpi = << >>
    /\ backup = NoTree /\ backupXpi = << >>
    /\ inputs = << >> /\ out = << >>
    /\ atInstall = NoSnapshot /\ atPatch = NoSnapshot
    /\ steps = << >>

\* The script is started again.  BACKUP_DATETIME has one-second resolution:
\* the new run's BACKUP_DIR is a new directory, or, within the same second,
\* the directory of the run before.
Rerun ==
    /\ pc \in {"done", "aborted"}
    /\ run < MaxRuns
    /\ run' = run + 1
    /\ pc' = "rmtree"
    /\ aborted' = ""
    /\ walked' = {}
    /\ inputs' = << >> /\ out' = << >>
    /\ atInstall' = NoSnapshot /\ atPatch' = NoSnapshot
    /\ \/ backup' = NoTree /\ backupXpi' = << >>
       \/ UNCHANGED backupVars
    /\ UNCHANGED <<worldVars, build, buildXpi, unpacked, repacked, profileVars>>
    /\ steps' = << >>

Next ==
    \/ rmtree
    \/ prepare_files_copytree
    \/ \E p \in DOMAIN src.files : prepare_files_render(p)
    \/ prepare_files_return
    \/ get_profile_dir
    \/ install_user_chrome
    \/ backup_user_js
    \/ backup_user_chrome
    \/ install_user_chrome_copytree
    \/ update_sidebery
    \/ unpack_sidebery_copy
    \/ unpack_sidebery_unpack_archive
    \/ update_sidebery_themes_copytree
    \/ update_sidebery_themes_html
    \/ repack_sidebery
    \/ backup_sidebery
    \/ backup_sidebery_unlink
    \/ update_sidebery_copy_begin
    \/ update_sidebery_copy_end
    \/ Rerun

Spec == Init /\ [][Next]_vars

----------------------------------------------------------------------------
(* Properties of the build step *)

\* _prepare_files has returned.
Prepared == pc = "locate"

\* The files of the source tree whose name does not end in '.jinja'.
NonTemplates == { p \in DOMAIN src.files : ~IsTemplate(BaseName(p)) }

\* The name with the '.jinja' suffix removed.
WithoutSuffix(file) == SubSeq(file, 1, Len(file) - Len(".jinja"))

\* C5: once _prepare_files has returned, every file of the source tree whose
\* name does not end in '.jinja' is in the build tree at the same relative
\* path with the same content, whatever the source tree.
C5_NonTemplatesCopied ==
    Prepared =>
        \A p \in NonTemplates :
            /\ p \in DOMAIN build.files
            /\ build.files[p] = src.files[p]

\* C8: once _prepare_files has returned, every file named *.jinja has its
\* rendered text in the build tree at its own path with the suffix removed,
\* and no file of the build tree has a name ending in '.jinja'.
C8_TemplatesRendered ==
    Prepared =>
        /\ \A p \in Templates :
              LET q == ParentOf(p) \o <<WithoutSuffix(BaseName(p))>>
              IN  /\ q \in DOMAIN build.files
                  /\ build.files[q] = Render(src.files[p])
        /\ \A q \in DOMAIN build.files : ~EndsWith(BaseName(q), ".jinja")

----------------------------------------------------------------------------
(* Properties of the run *)

InstallAsked == Len(inputs) >= 1
PatchAsked == Len(inputs) >= 2
InstallAnswer == inputs[1]
PatchAnswer == inputs[2]
Yes == {"y", "Y"}

InstallerBody == {"backup_js", "backup_chrome", "install_copy"}
PatcherBody ==
    {"unpack_copy", "unpack_extract", "themes_copy", "themes_html", "repack",
     "backup_xpi", "backup_unlink", "copy_back", "copy_back_end"}

\* C1: an answer other than 'y' or 'Y' declines the gated step: the run goes
\* on to what follows the step with no backup written and the profile
\* directory and the extension archive as they were at the prompt; the body of
\* a step is entered on 'y' and 'Y' only, and on these it is entered.
C1_DeclineLeavesProfile ==
    /\ (InstallAsked /\ ~PatchAsked /\ InstallAnswer \notin Yes) =>
          /\ pc = "patch_prompt"
          /\ Snapshot = atInstall
    /\ (InstallAsked /\ ~PatchAsked /\ InstallAnswer \in Yes) =>
          /\ pc \in InstallerBody \cup {"patch_prompt", "aborted"}
          /\ pc = "patch_prompt" => profile = CopyTree(SubTree(build, <<"profile">>),
                                                     atInstall.profile, << >>, NothingIgnored)
    /\ (PatchAsked /\ PatchAnswer \notin Yes) =>
          /\ pc = "done"
          /\ Snapshot = atPatch
    /\ (PatchAsked /\ PatchAnswer \in Yes) =>
          /\ pc \in PatcherBody \cup {"done", "aborted"}
          /\ pc = "done" => xpi = repacked
    /\ pc \in InstallerBody => InstallAsked /\ InstallAnswer \in Yes
    /\ pc \in PatcherBody => PatchAsked /\ PatchAnswer \in Yes

\* C1 happens: both prompts answered with something that is not 'y' or 'Y',
\* in a profile that has files and an archive to lose.
C1_Witness ==
    /\ PatchAsked
    /\ InstallAnswer = "yes" /\ PatchAnswer = ""
    /\ pc = "done"
    /\ xpi # << >>
    /\ <<"user.js">> \in DOMAIN profile.files

\* The patcher was confirmed and stopped or failed before _repack_sidebery
\* returned.
BeforeRepacked ==
    /\ PatchAsked /\ PatchAnswer \in Yes
    /\ \/ pc \in {"unpack_copy", "unpack_extract", "themes_copy", "themes_html", "repack"}
       \/ pc = "aborted" /\ repacked = << >>

\* C2: in a confirmed patcher run, until unpack, patch and repack have all
\* succeeded (at each step before that, and after a failure of one of them)
\* the archive at the profile path is the one the run found there, and
\* nothing of the profile or of the backups has been created or changed.
C2_ArchiveKeptUntilRepacked ==
    BeforeRepacked => Snapshot = atPatch

\* C2 happens: the markup patch failed on an archive that was unpacked.
C2_Witness ==
    /\ BeforeRepacked
    /\ pc = "aborted" /\ aborted = "AttributeError"
    /\ unpacked # << >>
    /\ xpi # << >>

\* C3: in a confirmed patcher run that found an archive, the archive found
\* is, in every state, at the profile path or in the backup; whenever the
\* profile path holds something else the backup holds it (the move comes
\* before the copy); and when the run has completed the backup holds it and
\* the profile path holds the archive this run repacked.
C3_OriginalNeverLost ==
    (PatchAsked /\ PatchAnswer \in Yes /\ atPatch.xpi # << >>) =>
        /\ xpi = atPatch.xpi \/ backupXpi = atPatch.xpi
        /\ pc \in {"copy_back", "copy_back_end", "done"} => backupXpi = atPatch.xpi
        /\ pc = "done" => /\ xpi = repacked
                          /\ xpi[1].stamp = run
                          /\ xpi # atPatch.xpi

\* C3 happens: a confirmed patcher run has completed.
C3_Witness ==
    /\ PatchAsked /\ PatchAnswer \in Yes
    /\ pc = "done"
    /\ backupXpi = atPatch.xpi
    /\ xpi # atPatch.xpi

\* The link elements of a document that carry the marker id.
ThemeLinks(doc) ==
    LET nodes == doc.head \o doc.body
    IN  { i \in 1..Len(nodes) :
            nodes[i].tag = "link" /\ nodes[i].id = SIDEBERY_CUSTOM_THEME_TAG_ID }

\* This run's patcher was confirmed and has patched the markup of an archive
\* that an earlier run's patcher installed.
PatchedAgain ==
    /\ PatchAsked /\ PatchAnswer \in Yes
    /\ pc \in {"repack", "backup_xpi", "backup_unlink", "copy_back", "copy_back_end", "done"}
    /\ atPatch.xpi[1].stamp >= 1

IsPrefix(s, t) == Len(s) <= Len(t) /\ s = SubSeq(t, 1, Len(s))

Printed(message) == \E i \in 1..Len(out) : out[i] = message

\* The calls of the __main__ block in the order the block makes them.
MainOrder ==
    <<"rmtree", "begin renderer", "end renderer", "begin locator", "end locator",
      "begin installer", "end installer", "begin patcher", "end patcher">>

\* The order with the Profile Locator first.
LocatorFirstOrder ==
    <<"begin locator", "end locator", "rmtree", "begin renderer", "end renderer",
      "begin installer", "end installer", "begin patcher", "end patcher">>

\* C6 as claimed: the steps of a run are Profile Locator, Template Renderer,
\* Profile Installer, Extension Patcher in this order, each begun after the one
\* before has ended: the profile is located, or the locator's error raised,
\* before the build directory is deleted and before anything is rendered.
C6_LocatorFirst ==
    /\ IsPrefix(steps, LocatorFirstOrder)
    /\ aborted \in {"NotImplementedError", "StopIteration"} => steps = <<"begin locator">>

\* C6 as amended: the steps of a run are Template Renderer, Profile Locator,
\* Profile Installer, Extension Patcher in this order, each begun after the one
\* before has ended: the build directory is deleted and the theme rendered
\* before the profile is located, and the locator's errors are raised after.
C6_RendererFirst ==
    /\ IsPrefix(steps, MainOrder)
    /\ aborted \in {"NotImplementedError", "StopIteration"} =>
          /\ steps = SubSeq(MainOrder, 1, 4)
          /\ Templates \subseteq walked
          /\ ~InstallAsked

\* C6 happens: a run made all four steps.
C6_Witness ==
    /\ pc = "done"
    /\ steps = MainOrder
    /\ Printed("installed profile") /\ Printed("installed sidebery")

\* The installer was confirmed in a profile without user.js or without chrome/.
NothingToBackUp ==
    /\ InstallAsked /\ InstallAnswer \in Yes
    /\ \/ <<"user.js">> \notin DOMAIN atInstall.profile.files
       \/ <<"chrome">> \notin atInstall.profile.dirs

\* C7: when the installer is confirmed and the profile has no user.js or no
\* chrome directory, the run is in the backup or has ended there with a
\* FileNotFoundError; the step that is left when user.js was there is the
\* backup of the missing chrome directory; the profile and the archive are as
\* they were, the success message is not printed and the patcher never prompts.
C7_MissingBackupSourceAborts ==
    NothingToBackUp =>
        /\ pc \in {"backup_js", "backup_chrome", "aborted"}
        /\ pc = "aborted" => aborted = "FileNotFoundError"
        /\ pc = "backup_chrome" => <<"chrome">> \notin profile.dirs
        /\ profile = atInstall.profile /\ xpi = atInstall.xpi
        /\ ~Printed("installed profile")
        /\ ~Printed("prompt:patch") /\ ~PatchAsked

\* C7 happens: user.js was backed up and the backup of chrome/ failed.
C7_Witness ==
    /\ NothingToBackUp
    /\ pc = "aborted"
    /\ <<"user.js">> \in DOMAIN backup.files
    /\ <<"chrome">> \notin profile.dirs
    /\ <<"profile">> \in build.dirs

Elements(nodes) == SelectSeq(nodes, IsElement)

EffectsAsAnswered ==
    /\ (pc = "done" /\ PatchAsked) =>
          /\ IF InstallAnswer \in Yes
             THEN /\ Printed("installed profile")
                  /\ profile = CopyTree(SubTree(build, <<"profile">>), atInstall.profile,
                                        << >>, NothingIgnored)
                  /\ <<"user.js">> \in DOMAIN backup.files
             ELSE /\ ~Printed("installed profile")
                  /\ profile = atInstall.profile
                  /\ DOMAIN backup.files = DOMAIN atInstall.backup.files
          /\ IF PatchAnswer \in Yes
             THEN /\ Printed("installed sidebery")
                  /\ xpi = repacked /\ xpi # atPatch.xpi
                  /\ backupXpi = atPatch.xpi
             ELSE /\ ~Printed("installed sidebery")
                  /\ xpi = atPatch.xpi /\ backupXpi = atPatch.backupXpi
    /\ (PatchAsked /\ InstallAnswer \notin Yes) =>
          /\ profile = atInstall.profile
          /\ atPatch.xpi = atInstall.xpi

\* C10 as claimed: every run that locates a profile issues the patcher
\* prompt, after the installer step, whether the installer was confirmed or
\* declined; in each of the four combinations of answers the confirmed steps,
\* and only they, take effect; with the installer declined and the patcher
\* confirmed only the extension archive changes in the profile.
C10_PatcherAlwaysPrompts ==
    /\ (pc \in {"done", "aborted"} /\ Printed("prompt:install")) => Printed("prompt:patch")
    /\ Printed("prompt:patch") => IsPrefix(SubSeq(MainOrder, 1, 7), steps)
    /\ EffectsAsAnswered

\* C10 as amended: every run in which the installer step returns, declined
\* or confirmed, issues the patcher prompt next (a confirmed installer whose
\* backup or copy raises ends the run before it); in each of the four
\* combinations of answers the confirmed steps, and only they, take effect;
\* with the installer declined and the patcher confirmed only the extension
\* archive changes in the profile.
C10_PatcherPromptsAfterInstaller ==
    /\ (pc \in {"done", "aborted"} /\ Printed("prompt:install")) =>
          \/ Printed("prompt:patch")
          \/ /\ InstallAnswer \in Yes
             /\ aborted \in {"FileNotFoundError", "FileExistsError"}
             /\ "end installer" \notin {steps[i] : i \in 1..Len(steps)}
    /\ IsPrefix(SubSeq(MainOrder, 1, 7), steps) => pc = "patch_prompt" \/ Printed("prompt:patch")
    /\ Printed("prompt:patch") => IsPrefix(SubSeq(MainOrder, 1, 7), steps)
    /\ EffectsAsAnswered

\* C10 happens: the installer declined, the patcher confirmed and completed.
C10_Witness ==
    /\ pc = "done"
    /\ InstallAnswer \notin Yes /\ PatchAnswer \in Yes
    /\ profile = atInstall.profile
    /\ xpi # atInstall.xpi
====
